---- MODULE Spec2Model ----
(***************************************************************************)
(* A model of tcp4to6: Run / handleListener / handleConn / bridgeStreams   *)
(* of src/tcpto6.go and the library variant BridgeStreams / copyStream /   *)
(* closeAfterDone of src/unnamed/part_001.                                  *)
(*                                                                         *)
(* rungroup (an imported package) is modelled by what its callers rely on: *)
(* a group owns a context derived from its parent; a task started with Go  *)
(* cancels that context when it returns, unless it was started with        *)
(* NoCancelOnSuccess and returned nil; Wait joins every task started with  *)
(* Go and yields the errors the tasks returned.                            *)
(***************************************************************************)
EXTENDS Integers, Sequences, FiniteSets, TLC

\* ------------------------------------------------------------------ bounds
MaxConns == 2
MaxPeerOps == 3
MaxFaults == 1
MultiEvents == 2
FairPeerOps == 2
AggFaults == 3
AggPeerOps == 2
\* A run with one bridge (Run with a single accepted connection, or
\* BridgeStreams) has at most MaxPeerOps bytes sent and closes done by the
\* peers (FairPeerOps under the fair specification) and at most MaxFaults
\* failing calls; a run of the service with up to MaxConns connections has at
\* most MultiEvents of both kinds together.

Conns   == 1..MaxConns
Streams == {"from", "to"}
Dirs    == {"ft", "tf"}

\* io.Copy(to, from) is direction "ft", io.Copy(from, to) is direction "tf".
\* In BridgeStreams a is "to" and b is "from": copyStream(a, b) is "ft".
Src(d) == IF d = "ft" THEN "from" ELSE "to"
Dst(d) == IF d = "ft" THEN "to" ELSE "from"
Other(d) == IF d = "ft" THEN "tf" ELSE "ft"

VARIABLES
    prog,       \* which entry point runs: "Run" or "BridgeStreams"
    envSet,     \* os.LookupEnv(ToAddrEnvName) finds the variable
    actErr,     \* activation.Listeners() fails
    nSockets,   \* len(listeners)
    runPc,      \* Run: "start", "wait" (in group.Wait), "returned"
    runErr,     \* what Run returned ("none" before it returns)
    extCancel,  \* the context given to Run / BridgeStreams is cancelled
    svcCancel,  \* the service group has cancelled its context
    svcErrs,    \* errors returned by tasks of the service group
    lPc,        \* handleListener: "idle", "accept", "done"
    lClosed,    \* number of listener.Close() calls
    closerPc,   \* the listener closing task: "idle", "wait", "done"
    hPc,        \* per connection: "none", "dial", "bridge", "done", "lib", "libdone"
    nDials,     \* per connection: DialContext calls
    bCancel,    \* per connection: the bridge group has cancelled its context
    copyPc,     \* per connection and direction: "idle", "read", "write", "done"
    copyBuf,    \* the byte io.Copy read and has not yet written (0: none)
    copyErr,    \* what io.Copy returned ("none" while it runs)
    closePc,    \* bridgeStreams' close tasks, per stream: "idle", "wait", "done"
    closePos,   \* closeAfterDone: closers already closed (0..2), 3 when returned
    closeErrs,  \* closeAfterDone: errs
    closeRes,   \* per connection and stream: what Close returned ("none" before)
    taskErrs,   \* per connection: errors returned by tasks of the bridge group
    log,        \* per connection: log.Error calls (set of messages)
    panicked,   \* bridgeStreams reached panic("did not expect errors")
    libRes,     \* what BridgeStreams returned ("none" before it returns)
    opened,     \* per connection and stream: the socket exists
    sent,       \* bytes the peer of the stream has sent
    rdN,        \* how many of them Read has returned
    fin,        \* the peer has closed its sending side
    recv,       \* bytes written to the stream (what its peer receives)
    nClose,     \* Close calls on the stream
    peerOpsLeft, \* sends and closes the peers may still do
    faultsLeft, \* failing calls the environment may still produce
    acceptsLeft, \* connections handleListenerAccept may still return
    faulted,    \* per connection: one of its calls failed unexpectedly (history)
    late        \* per connection: Accept returned it after the cancellation (history)

svcVars    == <<envSet, actErr, nSockets, runPc, runErr, svcCancel, svcErrs, lPc, lClosed, closerPc>>
bridgeVars == <<bCancel, copyPc, copyBuf, copyErr, closePc, closePos, closeErrs, closeRes, taskErrs, log, panicked, libRes>>
streamVars == <<opened, sent, rdN, fin, recv, nClose, peerOpsLeft>>
vars == <<prog, extCancel, svcVars, hPc, nDials, bridgeVars, streamVars, faultsLeft, acceptsLeft, faulted,
          late>>

\* ------------------------------------------------------ errors and rungroup
\* Results of Read, Write, Close and io.Copy are "nil", "EOF", "NetErrClosed",
\* "OsErrClosed" or "Unexpected"; errors returned by tasks are tuples, Nil the
\* nil error.
Nil == <<>>

\* A net.Conn that was closed locally fails with net.ErrClosed; a general
\* io.ReadWriteCloser may report os.ErrClosed instead.
ClosedErrs == IF prog = "Run" THEN {"NetErrClosed"} ELSE {"NetErrClosed", "OsErrClosed"}
\* What a stream may return without having been closed locally.
ReadFaults  == IF prog = "Run" THEN {"Unexpected"} ELSE {"Unexpected", "NetErrClosed", "OsErrClosed"}
WriteFaults == IF prog = "Run" THEN {"Unexpected"} ELSE {"Unexpected", "EOF", "NetErrClosed", "OsErrClosed"}
CloseFaults == IF prog = "Run" THEN {"Unexpected"} ELSE {"Unexpected", "NetErrClosed", "OsErrClosed"}

\* rungroup: a returning task cancels the group unless it was started with
\* NoCancelOnSuccess and returned nil.
CancelsOnReturn(err, opt) == err # Nil \/ opt # "NoCancelOnSuccess"
\* rungroup: Wait yields the non-nil errors the tasks returned.
Collect(errs, err) == IF err = Nil THEN errs ELSE Append(errs, err)

\* A handler task dispatched without options.
HandlerOptionNone == "Default"
\* The option handleListener dispatches handleConn with.
HandlerOption == "NoCancelOnSuccess"
\* A handler task that returns an error to the service group.
HandlerTaskResultFailed == <<"handler failed", "", "Unexpected">>
\* The value the handler task returns after handleConn.
HandlerTaskResult == Nil

\* Copy tasks that log every error of io.Copy.
MainCopyLogsAll(e) == e # "nil"
\* bridgeStreams' copy tasks log unless io.Copy returned nil or net.ErrClosed.
MainCopyLogs(e) == e # "nil" /\ e # "NetErrClosed"
\* bridgeStreams' close tasks log unless Close returned nil or net.ErrClosed.
MainCloseLogs(e) == e # "nil" /\ e # "NetErrClosed"
\* Tasks that return the error they logged.
MainTaskResultLogged(e) == IF e \in {"nil", "NetErrClosed"} THEN Nil ELSE <<"task failed", "", e>>
\* Every task of bridgeStreams returns nil.
MainTaskResult(e) == Nil

\* A copyStream that wraps every error of io.Copy.
copyStreamWrapsAll(d, e) == IF e = "nil" THEN Nil ELSE <<"io.Copy failed", d, e>>
\* copyStream: nil, os.ErrClosed and net.ErrClosed give nil, anything else is wrapped.
copyStream(d, e) ==
    IF e \in {"nil", "OsErrClosed", "NetErrClosed"} THEN Nil ELSE <<"io.Copy failed", d, e>>

\* A switch that keeps the first error only.
AggregateFirst(msg, errs) == IF Len(errs) = 0 THEN Nil ELSE errs[1]
\* The switch on len(errs) of BridgeStreams and closeAfterDone.
Aggregate(msg, errs) ==
    IF Len(errs) = 0 THEN Nil
    ELSE IF Len(errs) = 1 THEN errs[1]
    ELSE <<msg, errs>>

\* ----------------------------------------------------------------- contexts
\* A service group whose context is not derived from the context given to Run.
SvcCtxOwnOnly == svcCancel
\* The service group's context: its own cancellation or its parent's.
SvcCtxDone == extCancel \/ svcCancel
\* A listener closing task that does not wait.
CloserCtxAlways == TRUE
\* <-ctx.Done() of the listener closing task.
CloserCtxDone == SvcCtxDone
\* Close tasks that do not wait for ctx.Done().
BridgeCtxAlways(i) == TRUE
\* A bridge group whose context is not derived from the handler's context.
BridgeCtxOwnOnly(i) == bCancel[i]
\* The bridge group's context: its own cancellation or its parent's.
BridgeCtxDone(i) == bCancel[i] \/ SvcCtxDone

\* --------------------------------------------------------------------- Init
NoConn == [i \in Conns |-> [s \in Streams |-> FALSE]]

InitCommon ==
    /\ extCancel = FALSE /\ svcCancel = FALSE /\ svcErrs = <<>>
    /\ lClosed = 0
    /\ nDials = [i \in Conns |-> 0]
    /\ bCancel = [i \in Conns |-> FALSE]
    /\ copyBuf = [i \in Conns |-> [d \in Dirs |-> 0]]
    /\ copyErr = [i \in Conns |-> [d \in Dirs |-> "none"]]
    /\ closePc = [i \in Conns |-> [s \in Streams |-> "idle"]]
    /\ closePos = [i \in Conns |-> 0]
    /\ closeErrs = [i \in Conns |-> <<>>]
    /\ closeRes = [i \in Conns |-> [s \in Streams |-> "none"]]
    /\ taskErrs = [i \in Conns |-> <<>>]
    /\ log = [i \in Conns |-> {}]
    /\ panicked = FALSE
    /\ libRes = <<"none">>
    /\ sent = [i \in Conns |-> [s \in Streams |-> <<>>]]
    /\ rdN = [i \in Conns |-> [s \in Streams |-> 0]]
    /\ fin = NoConn
    /\ recv = [i \in Conns |-> [s \in Streams |-> <<>>]]
    /\ nClose = [i \in Conns |-> [s \in Streams |-> 0]]
    /\ faulted = [i \in Conns |-> FALSE]
    /\ late = [i \in Conns |-> FALSE]

\* Run is entered with whatever the environment provides.
InitRun ==
    /\ prog = "Run"
    /\ envSet \in BOOLEAN /\ actErr \in BOOLEAN /\ nSockets \in 0..2
    /\ runPc = "start" /\ runErr = <<"none">>
    /\ lPc = "idle" /\ closerPc = "idle"
    /\ hPc = [i \in Conns |-> "none"]
    /\ copyPc = [i \in Conns |-> [d \in Dirs |-> "idle"]]
    /\ opened = NoConn
    /\ InitCommon

\* BridgeStreams is entered with two open streams; its three tasks are started.
InitLib ==
    /\ prog = "BridgeStreams"
    /\ envSet = TRUE /\ actErr = FALSE /\ nSockets = 1
    /\ runPc = "none" /\ runErr = <<"none">>
    /\ lPc = "idle" /\ closerPc = "idle"
    /\ hPc = [i \in Conns |-> IF i = 1 THEN "lib" ELSE "none"]
    /\ copyPc = [i \in Conns |-> [d \in Dirs |-> IF i = 1 THEN "read" ELSE "idle"]]
    /\ opened = [i \in Conns |-> [s \in Streams |-> i = 1]]
    /\ acceptsLeft = 0
    /\ InitCommon

\* Runs with one bridge: Run whose listener hands out one connection, or
\* BridgeStreams.
InitOne(ops) ==
    /\ InitLib \/ (InitRun /\ acceptsLeft = 1)
    /\ peerOpsLeft = ops /\ faultsLeft = MaxFaults

\* Runs of the service with up to MaxConns connections.
InitMulti ==
    /\ InitRun /\ acceptsLeft = MaxConns
    /\ \E f \in 0..MultiEvents : faultsLeft = f /\ peerOpsLeft = MultiEvents - f

\* Runs with one bridge in which up to AggFaults calls fail.
InitFaulty ==
    /\ InitLib \/ (InitRun /\ acceptsLeft = 1)
    /\ peerOpsLeft = AggPeerOps /\ faultsLeft = AggFaults

Init == InitOne(MaxPeerOps) \/ InitMulti

\* ---------------------------------------------------------------------- Run
\* A check that accepts any non-empty list of listeners.
ConfigOkAnyListener == envSet /\ ~actErr /\ nSockets >= 1
\* The three checks of Run: the variable is set, activation.Listeners()
\* succeeded, and it gave exactly one listener.
ConfigOk == envSet /\ ~actErr /\ nSockets = 1

\* Run returns a configuration error before any task exists.
RunConfigFail ==
    /\ prog = "Run" /\ runPc = "start"
    /\ ~ConfigOk
    /\ runPc' = "returned"
    /\ runErr' = IF ~envSet THEN <<"errEnvMissing">>
                 ELSE IF actErr THEN <<"could not get systemd sockets">>
                 ELSE <<"errUnexpectedSocketAmount">>
    /\ UNCHANGED <<prog, late, acceptsLeft, faulted, extCancel, envSet, actErr, nSockets, svcCancel, svcErrs, lPc,
                   lClosed, closerPc, hPc, nDials, bridgeVars, streamVars, faultsLeft>>

\* Run creates the group and starts handleListener and the listener closing task.
RunStart ==
    /\ prog = "Run" /\ runPc = "start"
    /\ ConfigOk
    /\ runPc' = "wait" /\ lPc' = "accept" /\ closerPc' = "wait"
    /\ UNCHANGED <<prog, late, acceptsLeft, faulted, extCancel, envSet, actErr, nSockets, runErr, svcCancel, svcErrs,
                   lClosed, hPc, nDials, bridgeVars, streamVars, faultsLeft>>

\* The context handed to Run or BridgeStreams is cancelled by its owner.
ExternalCancel ==
    /\ ~extCancel
    /\ \/ prog = "Run" /\ runPc = "wait"
       \/ prog = "BridgeStreams" /\ hPc[1] = "lib"
    /\ extCancel' = TRUE
    /\ UNCHANGED <<prog, late, acceptsLeft, faulted, svcVars, hPc, nDials, bridgeVars, streamVars, faultsLeft>>

\* A task of the service group returns err: rungroup records it and cancels.
SvcTaskReturn(err, opt) ==
    /\ svcErrs' = Collect(svcErrs, err)
    /\ svcCancel' = (svcCancel \/ CancelsOnReturn(err, opt))

\* A handleListener that only leaves its loop when Accept fails.
handleListenerResultNil(e) == Nil
\* A handleListener that reports every error of Accept.
handleListenerResultAll(e) == <<"failed to accept new connection", "", e>>
\* What handleListener returns when Accept failed with e: nil for
\* net.ErrClosed, the wrapped error otherwise.
handleListenerResult(e) ==
    IF e = "NetErrClosed" THEN Nil ELSE <<"failed to accept new connection", "", e>>

\* l.Accept() returns a connection: a handler task is dispatched for it.
handleListenerAccept(i) ==
    /\ lPc = "accept" /\ lClosed = 0 /\ acceptsLeft > 0
    /\ hPc[i] = "none" /\ \A j \in Conns : j < i => hPc[j] # "none"
    /\ acceptsLeft' = acceptsLeft - 1
    /\ hPc' = [hPc EXCEPT ![i] = "dial"]
    /\ opened' = [opened EXCEPT ![i]["from"] = TRUE]
    /\ late' = [late EXCEPT ![i] = SvcCtxDone]
    /\ UNCHANGED <<prog, faulted, extCancel, svcVars, nDials, bridgeVars, sent, rdN, fin, recv,
                   nClose, peerOpsLeft, faultsLeft>>

\* l.Accept() fails with net.ErrClosed: handleListener returns nil.
handleListenerClosed ==
    /\ lPc = "accept" /\ lClosed > 0
    /\ lPc' = "done"
    /\ SvcTaskReturn(handleListenerResult("NetErrClosed"), "Default")
    /\ UNCHANGED <<prog, late, acceptsLeft, faulted, extCancel, envSet, actErr, nSockets, runPc, runErr, lClosed,
                   closerPc, hPc, nDials, bridgeVars, streamVars, faultsLeft>>

\* l.Accept() fails with another error: handleListener returns it wrapped.
handleListenerFail ==
    /\ lPc = "accept" /\ lClosed = 0 /\ faultsLeft > 0
    /\ faultsLeft' = faultsLeft - 1
    /\ lPc' = "done"
    /\ SvcTaskReturn(handleListenerResult("Unexpected"), "Default")
    /\ UNCHANGED <<prog, late, acceptsLeft, faulted, extCancel, envSet, actErr, nSockets, runPc, runErr, lClosed,
                   closerPc, hPc, nDials, bridgeVars, streamVars>>

\* The second task of Run: after ctx.Done() it closes the listener.
CloseListener ==
    /\ closerPc = "wait" /\ CloserCtxDone
    /\ closerPc' = "done"
    /\ lClosed' = lClosed + 1
    /\ \E e \in {"nil"} \cup (IF faultsLeft > 0 THEN {"Unexpected"} ELSE {}) :
          /\ faultsLeft' = IF e = "nil" THEN faultsLeft ELSE faultsLeft - 1
          /\ SvcTaskReturn(IF e = "nil" THEN Nil ELSE <<"could not close listener", "", e>>,
                           "Default")
    /\ UNCHANGED <<prog, late, acceptsLeft, faulted, extCancel, envSet, actErr, nSockets, runPc, runErr, lPc,
                   hPc, nDials, bridgeVars, streamVars>>

\* A Wait that joins handleListener and the listener closing task only.
RunJoinedLoopAndCloser == lPc = "done" /\ closerPc = "done"
\* group.Wait() of Run blocks until every task started with group.Go has
\* returned: handleListener, the listener closing task and the handler tasks.
RunJoined ==
    /\ lPc = "done" /\ closerPc = "done"
    /\ \A i \in Conns : hPc[i] \in {"none", "done"}

\* group.Wait() of Run returns once every task started with Go has returned.
RunWait ==
    /\ prog = "Run" /\ runPc = "wait"
    /\ RunJoined
    /\ runPc' = "returned"
    /\ runErr' = IF svcErrs = <<>> THEN Nil ELSE <<"listening group failed", svcErrs>>
    /\ UNCHANGED <<prog, late, acceptsLeft, faulted, extCancel, envSet, actErr, nSockets, svcCancel, svcErrs, lPc,
                   lClosed, closerPc, hPc, nDials, bridgeVars, streamVars, faultsLeft>>

\* --------------------------------------------------------------- handleConn
\* DialContext succeeds: bridgeStreams creates its group and starts four tasks.
handleConnDialOk(i) ==
    /\ hPc[i] = "dial" /\ ~SvcCtxDone
    /\ nDials' = [nDials EXCEPT ![i] = @ + 1]
    /\ hPc' = [hPc EXCEPT ![i] = "bridge"]
    /\ opened' = [opened EXCEPT ![i]["to"] = TRUE]
    /\ copyPc' = [copyPc EXCEPT ![i] = [d \in Dirs |-> "read"]]
    /\ closePc' = [closePc EXCEPT ![i] = [s \in Streams |-> "wait"]]
    /\ UNCHANGED <<prog, late, acceptsLeft, faulted, extCancel, svcVars, bCancel, copyBuf, copyErr, closePos, closeErrs,
                   closeRes, taskErrs, log, panicked, libRes, sent, rdN, fin, recv, nClose,
                   peerOpsLeft, faultsLeft>>

\* A handler that dials again after a failed dial.
AfterDialFailRetry == "dial"
\* Where handleConn goes after the failed dial and the Close: it returns.
AfterDialFail == "done"

\* A failure branch that only logs.
DialFailLeavesFrom == FALSE
\* The failure branch of handleConn calls from.Close().
DialFailClosesFrom == TRUE

\* DialContext fails (refused, unreachable, context cancelled): the accepted
\* connection is closed and the handler task returns nil.
handleConnDialFail(i) ==
    /\ hPc[i] = "dial"
    /\ nDials' = [nDials EXCEPT ![i] = @ + 1]
    /\ hPc' = [hPc EXCEPT ![i] = AfterDialFail]
    /\ nClose' = [nClose EXCEPT ![i]["from"] = IF DialFailClosesFrom THEN @ + 1 ELSE @]
    /\ \E e \in {"nil"} \cup (IF faultsLeft > 0 THEN CloseFaults ELSE {}) :
          /\ faultsLeft' = IF e = "nil" THEN faultsLeft ELSE faultsLeft - 1
          /\ faulted' = [faulted EXCEPT ![i] = @ \/ e # "nil"]
          /\ closeRes' = [closeRes EXCEPT ![i]["from"] = e]
          /\ log' = [log EXCEPT ![i] = @ \cup {<<"dial", "to">>}
                        \cup (IF e # "nil" THEN {<<"close accepted", "from">>} ELSE {})]
    /\ SvcTaskReturn(HandlerTaskResult, HandlerOption)
    /\ UNCHANGED <<prog, late, acceptsLeft, extCancel, envSet, actErr, nSockets, runPc, runErr, lPc, lClosed,
                   closerPc, bCancel, copyPc, copyBuf, copyErr, closePc, closePos, closeErrs,
                   taskErrs, panicked, libRes, opened, sent, rdN, fin, recv, peerOpsLeft>>

\* ------------------------------------------------------------------- bridge
\* A task of connection i's bridge group returns err: rungroup records it and
\* cancels the group (the bridge tasks are started without options).
BridgeTaskReturn(i, err) ==
    /\ taskErrs' = [taskErrs EXCEPT ![i] = Collect(@, err)]
    /\ bCancel' = [bCancel EXCEPT ![i] = @ \/ CancelsOnReturn(err, "Default")]

\* io.Copy of direction d returned e: the task around it reports and returns.
ioCopyReturn(i, d, e) ==
    /\ copyPc' = [copyPc EXCEPT ![i][d] = "done"]
    /\ copyErr' = [copyErr EXCEPT ![i][d] = e]
    /\ IF prog = "Run"
       THEN /\ log' = [log EXCEPT ![i] = @ \cup (IF MainCopyLogs(e) THEN {<<"copy", d>>} ELSE {})]
            /\ BridgeTaskReturn(i, MainTaskResult(e))
       ELSE /\ log' = log
            /\ BridgeTaskReturn(i, copyStream(d, e))

\* io.Copy treats io.EOF from Read as the end of the copy: it returns nil.
ReadEnds(e) == IF e = "EOF" THEN "nil" ELSE e

\* A Read that hands out the start of the stream again.
NextByteFirst(i, s) == sent[i][s][1]
\* The byte Read returns: the first one of the stream not yet read.
NextByte(i, s) == sent[i][s][rdN[i][s] + 1]

\* io.Copy calls src.Read: the stream was closed locally, or has a byte, or its
\* peer has finished sending. Otherwise Read blocks.
ioCopyRead(i, d) ==
    /\ copyPc[i][d] = "read"
    /\ LET s == Src(d) IN
       \/ /\ nClose[i][s] > 0
          /\ \E e \in ClosedErrs : ioCopyReturn(i, d, ReadEnds(e))
          /\ UNCHANGED <<rdN, copyBuf>>
       \/ /\ nClose[i][s] = 0 /\ rdN[i][s] < Len(sent[i][s])
          /\ rdN' = [rdN EXCEPT ![i][s] = @ + 1]
          /\ copyBuf' = [copyBuf EXCEPT ![i][d] = NextByte(i, s)]
          /\ copyPc' = [copyPc EXCEPT ![i][d] = "write"]
          /\ UNCHANGED <<copyErr, log, taskErrs, bCancel>>
       \/ /\ nClose[i][s] = 0 /\ rdN[i][s] = Len(sent[i][s]) /\ fin[i][s]
          /\ ioCopyReturn(i, d, ReadEnds("EOF"))
          /\ UNCHANGED <<rdN, copyBuf>>
    /\ UNCHANGED <<prog, late, acceptsLeft, faulted, extCancel, svcVars, hPc, nDials, closePc, closePos, closeErrs,
                   closeRes, panicked, libRes, opened, sent, fin, recv, nClose, peerOpsLeft,
                   faultsLeft>>

\* src.Read fails although the stream was not closed locally.
ioCopyReadFault(i, d) ==
    /\ copyPc[i][d] = "read" /\ nClose[i][Src(d)] = 0 /\ faultsLeft > 0
    /\ faultsLeft' = faultsLeft - 1
    /\ faulted' = [faulted EXCEPT ![i] = TRUE]
    /\ \E e \in ReadFaults : ioCopyReturn(i, d, ReadEnds(e))
    /\ UNCHANGED <<prog, late, acceptsLeft, extCancel, svcVars, hPc, nDials, copyBuf, closePc, closePos,
                   closeErrs, closeRes, panicked, libRes, streamVars>>

\* io.Copy calls dst.Write with the byte it read and the peer takes it.
ioCopyWrite(i, d) ==
    /\ copyPc[i][d] = "write" /\ nClose[i][Dst(d)] = 0
    /\ recv' = [recv EXCEPT ![i][Dst(d)] = Append(@, copyBuf[i][d])]
    /\ copyBuf' = [copyBuf EXCEPT ![i][d] = 0]
    /\ copyPc' = [copyPc EXCEPT ![i][d] = "read"]
    /\ UNCHANGED <<prog, late, acceptsLeft, faulted, extCancel, svcVars, hPc, nDials, bCancel, copyErr, closePc,
                   closePos, closeErrs, closeRes, taskErrs, log, panicked, libRes, opened,
                   sent, rdN, fin, nClose, peerOpsLeft, faultsLeft>>

\* dst.Write fails because the stream was closed locally: io.Copy returns the error.
ioCopyWriteClosed(i, d) ==
    /\ copyPc[i][d] = "write" /\ nClose[i][Dst(d)] > 0
    /\ \E e \in ClosedErrs : ioCopyReturn(i, d, e)
    /\ copyBuf' = [copyBuf EXCEPT ![i][d] = 0]
    /\ UNCHANGED <<prog, late, acceptsLeft, faulted, extCancel, svcVars, hPc, nDials, closePc, closePos, closeErrs,
                   closeRes, panicked, libRes, streamVars, faultsLeft>>

\* dst.Write fails although the stream was not closed locally.
ioCopyWriteFault(i, d) ==
    /\ copyPc[i][d] = "write" /\ nClose[i][Dst(d)] = 0 /\ faultsLeft > 0
    /\ faultsLeft' = faultsLeft - 1
    /\ faulted' = [faulted EXCEPT ![i] = TRUE]
    /\ \E e \in WriteFaults : ioCopyReturn(i, d, e)
    /\ copyBuf' = [copyBuf EXCEPT ![i][d] = 0]
    /\ UNCHANGED <<prog, late, acceptsLeft, extCancel, svcVars, hPc, nDials, closePc, closePos, closeErrs,
                   closeRes, panicked, libRes, streamVars>>

\* A close task of bridgeStreams: after ctx.Done() it closes its stream, logs an
\* error other than net.ErrClosed, and returns nil.
bridgeStreamsClose(i, s) ==
    /\ closePc[i][s] = "wait" /\ BridgeCtxDone(i)
    /\ closePc' = [closePc EXCEPT ![i][s] = "done"]
    /\ nClose' = [nClose EXCEPT ![i][s] = @ + 1]
    /\ \E e \in {"nil"} \cup (IF faultsLeft > 0 THEN CloseFaults ELSE {}) :
          /\ faultsLeft' = IF e = "nil" THEN faultsLeft ELSE faultsLeft - 1
          /\ faulted' = [faulted EXCEPT ![i] = @ \/ e # "nil"]
          /\ closeRes' = [closeRes EXCEPT ![i][s] = e]
          /\ log' = [log EXCEPT ![i] = @ \cup (IF MainCloseLogs(e) THEN {<<"close", s>>} ELSE {})]
          /\ BridgeTaskReturn(i, MainTaskResult(e))
    /\ UNCHANGED <<prog, late, acceptsLeft, extCancel, svcVars, hPc, nDials, copyPc, copyBuf, copyErr,
                   closePos, closeErrs, panicked, libRes, opened, sent, rdN, fin, recv,
                   peerOpsLeft>>

\* A Wait that joins the copy tasks only.
bridgeStreamsJoinedCopiesOnly(i) == \A d \in Dirs : copyPc[i][d] = "done"

\* group.Wait() of bridgeStreams blocks until the two copy tasks and the two
\* close tasks have returned.
bridgeStreamsJoined(i) ==
    /\ \A d \in Dirs : copyPc[i][d] = "done"
    /\ \A s \in Streams : closePc[i][s] = "done"

\* group.Wait() of bridgeStreams: all four tasks have returned. An error makes
\* it panic; otherwise handleConn returns and so does its task.
bridgeStreamsWait(i) ==
    /\ hPc[i] = "bridge"
    /\ bridgeStreamsJoined(i)
    /\ IF taskErrs[i] # <<>>
       THEN /\ panicked' = TRUE
            /\ hPc' = [hPc EXCEPT ![i] = "panic"]
            /\ UNCHANGED <<svcErrs, svcCancel>>
       ELSE /\ hPc' = [hPc EXCEPT ![i] = "done"]
            /\ SvcTaskReturn(HandlerTaskResult, HandlerOption)
            /\ UNCHANGED panicked
    /\ UNCHANGED <<prog, late, acceptsLeft, faulted, extCancel, envSet, actErr, nSockets, runPc, runErr, lPc, lClosed,
                   closerPc, nDials, bCancel, copyPc, copyBuf, copyErr, closePc, closePos,
                   closeErrs, closeRes, taskErrs, log, libRes, streamVars, faultsLeft>>

\* closeAfterDone: after ctx.Done() it closes a ("to"), then b ("from"), keeps the
\* errors, and returns their aggregate after the last closer.
ClosersTwiceA == <<"to", "to">>
Closers == <<"to", "from">>

closeAfterDone(i) ==
    /\ hPc[i] = "lib" /\ closePos[i] < Len(Closers) /\ BridgeCtxDone(i)
    /\ LET s == Closers[closePos[i] + 1] IN
       /\ nClose' = [nClose EXCEPT ![i][s] = @ + 1]
       /\ \E e \in {"nil"} \cup (IF faultsLeft > 0 THEN CloseFaults ELSE {}) :
          LET errs == IF e = "nil" THEN closeErrs[i]
                      ELSE Append(closeErrs[i], <<"close", s, e>>) IN
             /\ faultsLeft' = IF e = "nil" THEN faultsLeft ELSE faultsLeft - 1
             /\ faulted' = [faulted EXCEPT ![i] = @ \/ e # "nil"]
             /\ closeRes' = [closeRes EXCEPT ![i][s] = e]
             /\ closeErrs' = [closeErrs EXCEPT ![i] = errs]
             /\ IF closePos[i] + 1 = Len(Closers)
                THEN /\ closePos' = [closePos EXCEPT ![i] = Len(Closers) + 1]
                     /\ BridgeTaskReturn(i, Aggregate("multiple errors while closing closers", errs))
                ELSE /\ closePos' = [closePos EXCEPT ![i] = @ + 1]
                     /\ UNCHANGED <<taskErrs, bCancel>>
    /\ UNCHANGED <<prog, late, acceptsLeft, extCancel, svcVars, hPc, nDials, copyPc, copyBuf, copyErr,
                   closePc, log, panicked, libRes, opened, sent, rdN, fin, recv, peerOpsLeft>>

\* group.Wait() of BridgeStreams blocks until both copyStream tasks and
\* closeAfterDone have returned.
BridgeStreamsJoined(i) ==
    /\ \A d \in Dirs : copyPc[i][d] = "done"
    /\ closePos[i] = Len(Closers) + 1

\* group.Wait() of BridgeStreams: all three tasks have returned.
BridgeStreamsWait(i) ==
    /\ hPc[i] = "lib"
    /\ BridgeStreamsJoined(i)
    /\ hPc' = [hPc EXCEPT ![i] = "libdone"]
    /\ libRes' = Aggregate("multiple errors while bridging streams", taskErrs[i])
    /\ UNCHANGED <<prog, late, acceptsLeft, faulted, extCancel, svcVars, nDials, bCancel, copyPc, copyBuf, copyErr,
                   closePc, closePos, closeErrs, closeRes, taskErrs, log, panicked,
                   streamVars, faultsLeft>>

\* -------------------------------------------------------------------- peers
\* The peer of stream s sends one more byte; every byte sent is distinct.
PeerSend(i, s) ==
    /\ opened[i][s] /\ ~fin[i][s] /\ nClose[i][s] = 0 /\ peerOpsLeft > 0
    /\ sent' = [sent EXCEPT ![i][s] = Append(@, peerOpsLeft)]
    /\ peerOpsLeft' = peerOpsLeft - 1
    /\ UNCHANGED <<prog, late, acceptsLeft, faulted, extCancel, svcVars, hPc, nDials, bridgeVars, opened, rdN, fin,
                   recv, nClose, faultsLeft>>

\* The peer of stream s closes its sending side.
PeerClose(i, s) ==
    /\ opened[i][s] /\ ~fin[i][s] /\ nClose[i][s] = 0 /\ peerOpsLeft > 0
    /\ fin' = [fin EXCEPT ![i][s] = TRUE]
    /\ peerOpsLeft' = peerOpsLeft - 1
    /\ UNCHANGED <<prog, late, acceptsLeft, faulted, extCancel, svcVars, hPc, nDials, bridgeVars, opened, sent, rdN,
                   recv, nClose, faultsLeft>>

\* ------------------------------------------------------------ specification
Next ==
    \/ RunConfigFail
    \/ RunStart
    \/ ExternalCancel
    \/ handleListenerClosed
    \/ handleListenerFail
    \/ CloseListener
    \/ RunWait
    \/ \E i \in Conns : handleListenerAccept(i)
    \/ \E i \in Conns : handleConnDialOk(i)
    \/ \E i \in Conns : handleConnDialFail(i)
    \/ \E i \in Conns, d \in Dirs : ioCopyRead(i, d)
    \/ \E i \in Conns, d \in Dirs : ioCopyReadFault(i, d)
    \/ \E i \in Conns, d \in Dirs : ioCopyWrite(i, d)
    \/ \E i \in Conns, d \in Dirs : ioCopyWriteClosed(i, d)
    \/ \E i \in Conns, d \in Dirs : ioCopyWriteFault(i, d)
    \/ \E i \in Conns, s \in Streams : bridgeStreamsClose(i, s)
    \/ \E i \in Conns : bridgeStreamsWait(i)
    \/ \E i \in Conns : closeAfterDone(i)
    \/ \E i \in Conns : BridgeStreamsWait(i)
    \/ \E i \in Conns, s \in Streams : PeerSend(i, s)
    \/ \E i \in Conns, s \in Streams : PeerClose(i, s)

Spec == Init /\ [][Next]_vars

\* The runs with one bridge.
SpecOne == InitOne(MaxPeerOps) /\ [][Next]_vars

\* The runs with one bridge and several failing calls.
SpecFaulty == InitFaulty /\ [][Next]_vars

\* Steps the program takes by itself once they are possible: a runnable task is
\* scheduled, a pending dial returns, a call on a closed socket returns. Bytes
\* arriving, peers closing, peers draining writes, failures and the external
\* cancellation are left to the environment.
ProgStep ==
    \/ RunConfigFail \/ RunStart \/ handleListenerClosed \/ CloseListener \/ RunWait
    \/ \E i \in Conns : handleConnDialOk(i) \/ handleConnDialFail(i)
    \/ \E i \in Conns, d \in Dirs : ioCopyRead(i, d) \/ ioCopyWriteClosed(i, d)
    \/ \E i \in Conns, s \in Streams : bridgeStreamsClose(i, s)
    \/ \E i \in Conns : bridgeStreamsWait(i) \/ closeAfterDone(i) \/ BridgeStreamsWait(i)

FairSpecOne == InitOne(FairPeerOps) /\ [][Next]_vars /\ WF_vars(ProgStep)

\* The same with the runs of the service with several connections.
FairSpec == (InitOne(FairPeerOps) \/ InitMulti) /\ [][Next]_vars /\ WF_vars(ProgStep)

\* ------------------------------------------------------------------- claims
\* The bridge of connection i is running / has returned.
Bridging(i) == hPc[i] \in {"bridge", "lib"}
Bridged(i)  == (hPc[i] = "done" /\ opened[i]["to"]) \/ hPc[i] = "libdone"
\* A result the code does not treat as a closure.
UnexpectedRes(e) == e \notin {"none", "nil", "NetErrClosed", "OsErrClosed"}

\* C1: when handleConn has returned, the accepted connection has been closed,
\* and so has the upstream connection if the dial succeeded.
C1_NoLeak ==
    \A i \in Conns :
        hPc[i] = "done" =>
            /\ nClose[i]["from"] >= 1
            /\ opened[i]["to"] => nClose[i]["to"] >= 1

\* A handler returned after a successful dial, an unexpected copy error and
\* the external cancellation.
C1_Witness ==
    \E i \in Conns :
        /\ hPc[i] = "done" /\ opened[i]["to"] /\ extCancel
        /\ \E d \in Dirs : copyErr[i][d] = "Unexpected"

\* C2: a bridge never closes a stream twice, and when it has returned each of
\* its two streams was closed exactly once and its copy and close tasks have
\* all returned.
C2_CloseOnce ==
    \A i \in Conns :
        /\ (Bridging(i) \/ Bridged(i)) => \A s \in Streams : nClose[i][s] <= 1
        /\ Bridged(i) =>
            /\ \A s \in Streams : nClose[i][s] = 1
            /\ \A d \in Dirs : copyPc[i][d] = "done"
            /\ hPc[i] = "done" => \A s \in Streams : closePc[i][s] = "done"
            /\ hPc[i] = "libdone" => closePos[i] = Len(Closers) + 1

\* BridgeStreams has returned after a copy direction read EOF, each stream
\* closed once.
C2_Witness ==
    /\ hPc[1] = "libdone" /\ \E d \in Dirs : copyErr[1][d] = "nil"
    /\ \A s \in Streams : nClose[1][s] = 1

\* C3: once the parent context of a running bridge is cancelled, the bridge
\* eventually returns with both streams closed and all its tasks returned.
C3_CancelUnwinds ==
    \A i \in Conns :
        (Bridging(i) /\ SvcCtxDone) ~>
            (Bridged(i) /\ \A s \in Streams : nClose[i][s] >= 1)

\* A bridge returned after the cancellation found one copy task holding a byte
\* it could not write and the other one blocked in Read.
C3_Witness ==
    \E i \in Conns :
        /\ Bridged(i) /\ SvcCtxDone /\ ~faulted[i]
        /\ \A d \in Dirs : copyErr[i][d] \in {"NetErrClosed", "OsErrClosed"}
        /\ \E s \in Streams : Len(recv[i][s]) < rdN[i][IF s = "to" THEN "from" ELSE "to"]

IsPrefix(a, b) == Len(a) <= Len(b) /\ \A k \in 1..Len(a) : a[k] = b[k]

\* C4 as stated: after a bridge ended without cancellation and without a
\* failing call, each peer has received exactly the bytes the other one sent.
C4_Original ==
    \A i \in Conns :
        (Bridged(i) /\ ~SvcCtxDone /\ ~faulted[i]) =>
            \A d \in Dirs : recv[i][Dst(d)] = sent[i][Src(d)]

\* C4 (amended): what a peer has received is always a prefix of what the
\* opposite peer sent, and a direction whose copy ended by reading EOF has
\* delivered every byte sent in that direction.
C4_PrefixAndEofComplete ==
    \A i \in Conns : \A d \in Dirs :
        /\ IsPrefix(recv[i][Dst(d)], sent[i][Src(d)])
        /\ copyErr[i][d] = "nil" => recv[i][Dst(d)] = sent[i][Src(d)]

\* A direction relayed two bytes and then read EOF.
C4_Witness ==
    \E i \in Conns : \E d \in Dirs :
        /\ copyErr[i][d] = "nil"
        /\ Len(sent[i][Src(d)]) >= 2
        /\ recv[i][Dst(d)] = sent[i][Src(d)]

\* C5 as stated: a stream of a bridge is closed only when both copy
\* directions have completed naturally, or a call on one of its streams
\* failed, or the parent context is cancelled.
C5_Original ==
    \A i \in Conns :
        (Bridging(i) \/ Bridged(i)) =>
            \A s \in Streams :
                nClose[i][s] > 0 =>
                    \/ \A d \in Dirs : copyPc[i][d] = "done" /\ ~UnexpectedRes(copyErr[i][d])
                    \/ faulted[i]
                    \/ SvcCtxDone

\* C5 (amended): a stream of a bridge is closed only when some copy direction
\* has returned or the parent context is cancelled.
C5_ClosedOnlyAfterReturnOrCancel ==
    \A i \in Conns :
        (Bridging(i) \/ Bridged(i)) =>
            \A s \in Streams :
                nClose[i][s] > 0 => (\E d \in Dirs : copyPc[i][d] = "done") \/ SvcCtxDone

\* One direction read EOF, the parent is not cancelled, a stream is closed
\* and the other direction is still copying.
C5_Witness ==
    \E i \in Conns : \E d \in Dirs :
        /\ Bridging(i) /\ ~SvcCtxDone /\ ~faulted[i]
        /\ copyErr[i][d] = "nil" /\ copyPc[i][Other(d)] # "done"
        /\ \E s \in Streams : nClose[i][s] > 0

\* C6: after a failed dial handleConn has returned, the accepted connection
\* was closed exactly once, there was one dial, and no bridge exists: no
\* upstream socket, no copy or close task, no byte read or written.
DialFailed(i) == <<"dial", "to">> \in log[i]

C6_DialFailure ==
    \A i \in Conns :
        DialFailed(i) =>
            /\ hPc[i] = "done" /\ nDials[i] = 1
            /\ nClose[i]["from"] = 1 /\ nClose[i]["to"] = 0 /\ ~opened[i]["to"]
            /\ \A d \in Dirs : copyPc[i][d] = "idle"
            /\ \A s \in Streams : closePc[i][s] = "idle" /\ recv[i][s] = <<>> /\ rdN[i][s] = 0

\* The dial failed for a connection whose client had already sent a byte.
C6_Witness ==
    \E i \in Conns : DialFailed(i) /\ Len(sent[i]["from"]) > 0 /\ ~SvcCtxDone

\* Nothing was reported for connection i.
NoErrorReported(i) ==
    /\ log[i] = {} /\ taskErrs[i] = <<>>
    /\ hPc[i] = "libdone" => libRes = Nil

\* C7: once a copy direction has read EOF the bridge eventually returns; and
\* if no call of the connection failed, the other direction ended with nil or
\* a closed error and nothing was logged or returned.
C7_PeerCloseUnwinds ==
    /\ [](\A i \in Conns :
            (Bridged(i) /\ ~faulted[i] /\ \E d \in Dirs : copyErr[i][d] = "nil") =>
                /\ NoErrorReported(i)
                /\ \A d \in Dirs : copyErr[i][d] \in {"nil", "NetErrClosed", "OsErrClosed"})
    /\ \A i \in Conns :
            (Bridging(i) /\ \E d \in Dirs : copyErr[i][d] = "nil") ~> Bridged(i)

\* A bridge returned without cancellation: one direction read EOF, the other
\* one failed on the closed stream.
C7_Witness ==
    \E i \in Conns : \E d \in Dirs :
        /\ Bridged(i) /\ ~faulted[i] /\ ~SvcCtxDone
        /\ copyErr[i][d] = "nil"
        /\ copyErr[i][Other(d)] \in {"NetErrClosed", "OsErrClosed"}

\* C8: when a copy direction of BridgeStreams fails with an unexpected error
\* the group is cancelled and BridgeStreams eventually returns; if the other
\* direction and the Close calls did not fail, it returns exactly that error.
C8_OneCopyError ==
    /\ [](prog = "BridgeStreams" =>
            \A d \in Dirs :
                copyErr[1][d] = "Unexpected" =>
                    /\ bCancel[1]
                    /\ (/\ hPc[1] = "libdone"
                        /\ ~UnexpectedRes(copyErr[1][Other(d)])
                        /\ closeErrs[1] = <<>>)
                       => libRes = <<"io.Copy failed", d, "Unexpected">>)
    /\ (prog = "BridgeStreams" /\ \E d \in Dirs : copyErr[1][d] = "Unexpected")
            ~> hPc[1] = "libdone"

\* BridgeStreams returned after one direction failed while the other one was
\* stopped by the close.
C8_Witness ==
    \E d \in Dirs :
        /\ hPc[1] = "libdone" /\ copyErr[1][d] = "Unexpected"
        /\ copyErr[1][Other(d)] \in {"NetErrClosed", "OsErrClosed"}
        /\ libRes = <<"io.Copy failed", d, "Unexpected">>

\* C9: when every Read, Write and Close of a bridge returned nil, io.EOF,
\* os.ErrClosed or net.ErrClosed, nothing is logged or returned.
BenignRes == {"none", "nil", "EOF", "NetErrClosed", "OsErrClosed"}

C9_BenignNeverSurfaces ==
    \A i \in Conns :
        (/\ Bridged(i)
         /\ \A d \in Dirs : copyErr[i][d] \in BenignRes
         /\ \A s \in Streams : closeRes[i][s] \in BenignRes)
        => NoErrorReported(i)

\* State of connection j that another connection must leave alone.
ConnState(j) ==
    <<hPc[j], bCancel[j], copyPc[j], copyBuf[j], copyErr[j], closePc[j], taskErrs[j],
      log[j], nClose[j], recv[j], rdN[j]>>

\* C10: the step in which a connection handler ends (after a failed dial or
\* after its bridge) does not cancel the service group, gives it no error,
\* does not touch the accept loop, the listener or any other connection, and
\* does not panic.
C10_Isolation ==
    [][\A i \in Conns :
          (hPc[i] \notin {"done", "panic"} /\ hPc'[i] \in {"done", "panic"}) =>
              /\ hPc'[i] = "done" /\ ~panicked'
              /\ svcCancel' = svcCancel /\ svcErrs' = svcErrs
              /\ lPc' = lPc /\ lClosed' = lClosed /\ closerPc' = closerPc
              /\ \A j \in Conns \ {i} : ConnState(j)' = ConnState(j)]_vars

\* A handler ended after an unexpected error while the service is not
\* cancelled, the accept loop accepts and another bridge has relayed a byte.
C10_Witness ==
    \E i \in Conns : \E j \in Conns \ {i} :
        /\ hPc[i] = "done" /\ faulted[i]
        /\ hPc[j] = "bridge" /\ ~SvcCtxDone /\ lPc = "accept"
        /\ \E s \in Streams : recv[j][s] # <<>>

\* ------------------------------------------------------- service claims
\* Run got past its configuration checks.
RunStarted == prog = "Run" /\ lPc # "idle"
\* The errors in svcErrs that handleListener returned.
AcceptErrors == {svcErrs[k] : k \in {n \in 1..Len(svcErrs) : svcErrs[n][1] = "failed to accept new connection"}}
\* The errors in svcErrs that the listener closing task returned.
ListenerCloseErrors == {svcErrs[k] : k \in {n \in 1..Len(svcErrs) : svcErrs[n][1] = "could not close listener"}}
\* Accept handed out connection i in this step.
AcceptedNow(i) == ~opened[i]["from"] /\ opened'[i]["from"]

\* C11: handleListener leaves its loop only with the return for a failed
\* Accept: nil when the listener was closed, otherwise the wrapped error, which
\* Run then returns inside its own error; net.ErrClosed is never reported; a
\* successful Accept dispatches one handler for the new connection and the loop
\* goes on accepting.
C11_AcceptLoop ==
    /\ [](RunStarted =>
            /\ \A i \in Conns : opened[i]["from"] <=> hPc[i] # "none"
            /\ AcceptErrors \subseteq {<<"failed to accept new connection", "", "Unexpected">>}
            /\ lPc = "done" => (AcceptErrors # {} \/ lClosed > 0)
            /\ lPc = "accept" => AcceptErrors = {}
            /\ (runPc = "returned" /\ AcceptErrors # {}) =>
                   /\ runErr[1] = "listening group failed"
                   /\ \A e \in AcceptErrors : \E k \in 1..Len(runErr[2]) : runErr[2][k] = e)
    /\ [][\A i \in Conns :
            AcceptedNow(i) =>
                /\ lPc = "accept" /\ lPc' = "accept"
                /\ hPc[i] = "none" /\ hPc'[i] = "dial"
                /\ \A j \in Conns \ {i} : hPc'[j] = hPc[j] /\ opened'[j] = opened[j]]_vars
    /\ [][(lPc = "accept" /\ lPc' # "accept") =>
            /\ lPc' = "done" /\ hPc' = hPc /\ opened' = opened
            /\ \/ lClosed > 0 /\ svcErrs' = svcErrs
               \/ lClosed = 0 /\ svcErrs' = Append(svcErrs, <<"failed to accept new connection", "", "Unexpected">>)]_vars

\* Run returned the error of a failed Accept after two connections had been
\* accepted and handled and the listener had been closed.
C11_Witness ==
    /\ runPc = "returned" /\ AcceptErrors # {} /\ lClosed = 1
    /\ \A i \in Conns : hPc[i] = "done"

\* C12 as stated: a started Run returns an error exactly when handleListener
\* reported a fatal accept error.
C12_Original ==
    (RunStarted /\ runPc = "returned") => (runErr = Nil <=> AcceptErrors = {})

\* C12 (amended): a started Run returns nil exactly when neither Accept failed
\* fatally nor listener.Close() failed; nothing else reaches its result.
C12_RunResult ==
    (RunStarted /\ runPc = "returned") =>
        /\ runErr = Nil <=> (AcceptErrors = {} /\ ListenerCloseErrors = {})
        /\ \A k \in 1..Len(svcErrs) : svcErrs[k] \in AcceptErrors \cup ListenerCloseErrors
        /\ runErr # Nil => runErr = <<"listening group failed", svcErrs>>

\* Run returned nil after the external cancellation although a call of a
\* connection had failed and was logged.
C12_Witness ==
    /\ RunStarted /\ runPc = "returned" /\ runErr = Nil /\ extCancel
    /\ \E i \in Conns : faulted[i] /\ log[i] # {}

\* The configuration errors Run returns.
ConfigErrors == {<<"errEnvMissing">>, <<"could not get systemd sockets">>, <<"errUnexpectedSocketAmount">>}

\* C13: with the destination variable unset, activation.Listeners() failing
\* or a number of listeners other than one, Run never leaves its start except
\* by returning a configuration error: handleListener and the listener
\* closing task are never started, no connection is accepted and nothing is
\* dialed; a missing variable is reported before the listeners are looked at.
C13_ConfigError ==
    (prog = "Run" /\ (~envSet \/ actErr \/ nSockets # 1)) =>
        /\ runPc \in {"start", "returned"}
        /\ lPc = "idle" /\ closerPc = "idle" /\ lClosed = 0
        /\ svcErrs = <<>> /\ ~svcCancel
        /\ \A i \in Conns :
              /\ hPc[i] = "none" /\ nDials[i] = 0
              /\ \A s \in Streams : ~opened[i][s] /\ nClose[i][s] = 0
        /\ runPc = "returned" =>
              /\ runErr \in ConfigErrors
              /\ ~envSet => runErr = <<"errEnvMissing">>
              /\ (envSet /\ ~actErr) => runErr = <<"errUnexpectedSocketAmount">>

\* Run returned the socket-amount error for two provisioned sockets.
C13_Witness ==
    /\ prog = "Run" /\ runPc = "returned"
    /\ envSet /\ ~actErr /\ nSockets = 2
    /\ runErr = <<"errUnexpectedSocketAmount">>

\* The single errors an error value describes: itself, or for an aggregate
\* those of its members.
RECURSIVE Leaves(_)
Leaves(err) ==
    IF err = Nil THEN {}
    ELSE IF Len(err) = 2 THEN UNION {Leaves(err[2][k]) : k \in 1..Len(err[2])}
    ELSE {err}

\* The errors the tasks of BridgeStreams have to report: what io.Copy returned
\* unless copyStream takes it as a closure, and every error of a Close.
CopyFailures(i) ==
    {<<"io.Copy failed", d, copyErr[i][d]>> : d \in {x \in Dirs : copyErr[i][x] \in {"EOF", "Unexpected"}}}
CloseFailures(i) ==
    {<<"close", s, closeRes[i][s]>> : s \in {x \in Streams : closeRes[i][x] \notin {"none", "nil"}}}
AggregateMsgs == {"multiple errors while bridging streams", "multiple errors while closing closers"}

\* C14: when closeAfterDone has returned it has called Close on both closers
\* whatever the first Close returned; when BridgeStreams has returned, its
\* result is nil for no collected error, the error itself for one, and for
\* several an aggregate that lists each of them; the result describes exactly
\* the failed copies and the failed Close calls.
C14_Aggregation ==
    prog = "BridgeStreams" =>
        /\ closePos[1] = Len(Closers) + 1 =>
              /\ \A s \in Streams : nClose[1][s] = 1 /\ closeRes[1][s] # "none"
              /\ {closeErrs[1][k] : k \in 1..Len(closeErrs[1])} = CloseFailures(1)
        /\ hPc[1] = "libdone" =>
              /\ Len(taskErrs[1]) = 0 => libRes = Nil
              /\ Len(taskErrs[1]) = 1 => libRes = taskErrs[1][1]
              /\ Len(taskErrs[1]) > 1 => libRes = <<"multiple errors while bridging streams", taskErrs[1]>>
              /\ Leaves(libRes) = CopyFailures(1) \cup CloseFailures(1)
              /\ Cardinality(CopyFailures(1) \cup CloseFailures(1)) = 1 =>
                     libRes \in CopyFailures(1) \cup CloseFailures(1)
              /\ Cardinality(CopyFailures(1) \cup CloseFailures(1)) > 1 => libRes[1] \in AggregateMsgs

\* BridgeStreams returned an aggregate of a failed copy and of the aggregate
\* closeAfterDone built from two failed Close calls.
C14_Witness ==
    /\ hPc[1] = "libdone"
    /\ \A s \in Streams : closeRes[1][s] = "Unexpected"
    /\ \E d \in Dirs : copyErr[1][d] = "Unexpected"
    /\ libRes[1] = "multiple errors while bridging streams"
    /\ Cardinality(Leaves(libRes)) = 3

\* Every socket of a connection that exists has been closed.
AllConnsClosed == \A i \in Conns : \A s \in Streams : opened[i][s] => nClose[i][s] >= 1

\* C15: once the context given to the running service is cancelled, Run
\* eventually returns with the listener closed once, handleListener returned
\* and every accepted or dialed socket closed; and handleListener returns
\* without an error only when the listener has been closed. (An Accept that
\* fails fatally before the listener is closed ends the loop with that error.)
C15_Shutdown ==
    /\ (prog = "Run" /\ runPc = "wait" /\ extCancel) ~>
           (runPc = "returned" /\ lClosed = 1 /\ lPc = "done" /\ AllConnsClosed)
    /\ [][(lPc = "accept" /\ lPc' = "done" /\ svcErrs' = svcErrs) => lClosed > 0]_vars
    /\ [](lClosed > 0 => closerPc = "done")
    /\ []((RunStarted /\ lPc = "done" /\ AcceptErrors = {}) => lClosed > 0)

\* Run returned nil after the external cancellation had closed the bridges of
\* two connections, one of which had relayed a byte.
C15_Witness ==
    /\ prog = "Run" /\ runPc = "returned" /\ runErr = Nil /\ extCancel
    /\ \A i \in Conns :
          /\ hPc[i] = "done" /\ ~faulted[i]
          /\ \A d \in Dirs : copyErr[i][d] = "NetErrClosed"
    /\ \E i \in Conns : \E s \in Streams : recv[i][s] # <<>>

\* C16: the listener is never closed twice; when a started Run has returned,
\* the listener has been closed exactly once; and listener.Close() is called
\* only when the context given to Run or the service group is already
\* cancelled.
C16_ListenerClosedOnce ==
    /\ [](RunStarted =>
            /\ lClosed <= 1
            /\ runPc = "returned" => lClosed = 1)
    /\ [][lClosed' # lClosed => (lClosed' = lClosed + 1 /\ (extCancel \/ svcCancel))]_vars

\* Run returned the error of a failed Accept, without external cancellation,
\* with the listener closed once.
C16_Witness ==
    /\ RunStarted /\ runPc = "returned" /\ ~extCancel
    /\ AcceptErrors # {} /\ lClosed = 1

\* The handler of connection i has been dispatched and has not returned.
HandlerRunning(i) == hPc[i] \in {"dial", "bridge"}

\* C17 as stated: Run's Wait needs only handleListener and the listener
\* closing task: once both have returned, Run can return.
C17_Original ==
    (prog = "Run" /\ runPc = "wait" /\ lPc = "done" /\ closerPc = "done") => ENABLED RunWait

\* C17 (amended): Run returns only when handleListener, the listener closing
\* task and every dispatched handler have returned, so every socket is closed
\* by then; while a handler is running Run cannot return.
C17_RunJoinsHandlers ==
    /\ (RunStarted /\ runPc = "returned") =>
          /\ lPc = "done" /\ closerPc = "done"
          /\ \A i \in Conns : ~HandlerRunning(i)
          /\ AllConnsClosed
    /\ (prog = "Run" /\ runPc = "wait" /\ \E i \in Conns : HandlerRunning(i)) => ~ENABLED RunWait

\* Run returned after its cancellation ended a bridge whose peers had both
\* sent a byte and had not closed.
C17_Witness ==
    /\ RunStarted /\ runPc = "returned" /\ extCancel
    /\ \E i \in Conns :
          /\ hPc[i] = "done" /\ opened[i]["to"] /\ ~faulted[i]
          /\ \A s \in Streams : ~fin[i][s] /\ sent[i][s] # <<>>

\* C18: no task of a bridgeStreams group returns an error, whatever its
\* io.Copy or Close returned, so group.Wait() reports none and the panic is
\* never reached.
C18_NoPanic ==
    prog = "Run" =>
        /\ ~panicked
        /\ \A i \in Conns : hPc[i] # "panic" /\ taskErrs[i] = <<>>

\* A bridge returned after the cancellation although a copy and both Close
\* calls had failed unexpectedly.
C18_Witness ==
    /\ prog = "Run" /\ extCancel /\ ~panicked
    /\ \E i \in Conns :
          /\ hPc[i] = "done"
          /\ \E d \in Dirs : copyErr[i][d] = "Unexpected"
          /\ \A s \in Streams : closeRes[i][s] = "Unexpected"

\* C19: a connection that Accept returns when the service context is already
\* cancelled gets a handler; its dial fails, so it never gets a bridge or an
\* upstream socket; the handler closes it once and returns, eventually; and it
\* is closed when Run has returned.
C19_LateAccept ==
    /\ [](\A i \in Conns :
            late[i] =>
                /\ hPc[i] \in {"dial", "done"} /\ ~opened[i]["to"]
                /\ hPc[i] = "dial" => nClose[i]["from"] = 0
                /\ hPc[i] = "done" => (nClose[i]["from"] = 1 /\ DialFailed(i))
                /\ runPc = "returned" => nClose[i]["from"] = 1)
    /\ [][\A i \in Conns :
            (AcceptedNow(i) /\ (extCancel \/ svcCancel)) => (late'[i] /\ hPc'[i] = "dial")]_vars
    /\ \A i \in Conns : late[i] ~> (hPc[i] = "done" /\ nClose[i]["from"] = 1)

\* Run returned after a connection accepted between the cancellation and the
\* listener's close had been closed by its handler.
C19_Witness ==
    /\ prog = "Run" /\ runPc = "returned"
    /\ \E i \in Conns : late[i] /\ hPc[i] = "done" /\ nClose[i]["from"] = 1

\* C20: the step in which handleListener returns because Accept failed on the
\* open listener records the accept error and cancels the service group,
\* whether or not the context given to Run is cancelled; from then on Run
\* eventually returns, with the listener closed once, every socket closed,
\* and the accept error in its result.
C20_FatalAccept ==
    /\ [][(lPc = "accept" /\ lPc' = "done" /\ lClosed = 0) =>
            (svcCancel' /\ AcceptErrors' # {} /\ extCancel' = extCancel)]_vars
    /\ [](AcceptErrors # {} => svcCancel)
    /\ (RunStarted /\ AcceptErrors # {}) ~>
           (/\ runPc = "returned" /\ lClosed = 1 /\ AllConnsClosed
            /\ runErr = <<"listening group failed", svcErrs>>
            /\ AcceptErrors # {})

\* Without external cancellation Run returned the accept error after the
\* cancellation it caused had closed a bridge that had relayed a byte.
C20_Witness ==
    /\ RunStarted /\ runPc = "returned" /\ ~extCancel /\ AcceptErrors # {}
    /\ runErr = <<"listening group failed", svcErrs>>
    /\ \E i \in Conns :
          /\ hPc[i] = "done" /\ opened[i]["to"]
          /\ \A d \in Dirs : copyErr[i][d] = "NetErrClosed"
          /\ \E s \in Streams : recv[i][s] # <<>>

====
